---- MODULE Spec2Model ----
(***************************************************************************)
(* Model of github.com/aykhans/go-utils.  Package errors (handler.go):     *)
(* ErrorMatcher, the builders OnSentinelError / OnCustomError and the      *)
(* dispatchers HandleError, HandleErrorOrDie and HandleErrorOrDefault.     *)
(* Package slice: Cycle and RandomCycle.  Package maps: InitMap and        *)
(* UpdateMap.  Package number: NumLen.  Package parser: ParseString and    *)
(* its wrappers.  Each package has its own variables and specification.    *)
(*                                                                         *)
(* Values.  A Go interface value (error, any) is a sequence of chain       *)
(* elements, outermost first: element k is the value reached after k-1     *)
(* calls of Unwrap, and the value "element k itself" is the suffix of the  *)
(* sequence that starts at k.  The nil interface is the empty sequence.    *)
(* An element is a record [typ, id]: typ is the dynamic type, id is the    *)
(* pointer identity (pointer types) or the field value (value types), so   *)
(* Go's == on two interface values is equality of the sequences.           *)
(***************************************************************************)
EXTENDS Integers, Sequences, FiniteSets, TLC

\* ------------------------------------------------------------------ bounds
MaxChain == 3      \* longest wrap chain of an input error
MaxMatchers == 2   \* longest matcher list of a call

\* ------------------------------------------------------------- Go values
Nil == <<>>

\* dynamic types: *errors.errorString, *fmt.wrapError, CustomError,
\* *CustomError implement error; string does not.
ErrorTypes == {"errorString", "wrapError", "CustomError", "PtrCustomError"}

Elem(t, i) == [typ |-> t, id |-> i]

\* errors.New values: two distinct values built from the same text
ErrSentinel1 == <<Elem("errorString", 1)>>
ErrSentinel2 == <<Elem("errorString", 2)>>

\* the text of a chain element (its own message, not the joined text)
Msg(n) ==
  CASE n.typ = "errorString" -> "sentinel error"
    [] n.typ = "wrapError" -> "wrapped"
    [] n.typ = "CustomError" -> "custom error"
    [] n.typ = "PtrCustomError" -> "custom error"
    [] OTHER -> "not an error"

\* elements that end a chain, and elements that wrap a cause
Leaves == {Elem("errorString", 1), Elem("errorString", 2), Elem("CustomError", 1),
           Elem("PtrCustomError", 1), Elem("PtrCustomError", 2)}
Wrappers == {Elem("wrapError", 1), Elem("PtrCustomError", 1), Elem("PtrCustomError", 2)}

RECURSIVE ChainsOfLen(_)
ChainsOfLen(n) ==
  IF n = 1 THEN {<<x>> : x \in Leaves}
  ELSE {<<w>> \o c : w \in Wrappers, c \in ChainsOfLen(n - 1)}

\* the error values a caller passes: nil and every chain up to MaxChain
Errors == {Nil} \cup UNION {ChainsOfLen(n) : n \in 1..MaxChain}

\* reflect.TypeOf: the dynamic type, "nil" for the nil interface
TypeOf(v) == IF v = Nil THEN "nil" ELSE v[1].typ

\* v.(error): the value is non-nil and its dynamic type implements error
IsErrorValue(v) == v # Nil /\ TypeOf(v) \in ErrorTypes

\* Unwrap: the cause, nil when the element has none
Unwrap(e) == Tail(e)

\* the zero value of T stored in an `any`: nil for the interface type error
Zero(T) == IF T = "error" THEN Nil ELSE <<Elem(T, 0)>>

\* --------------------------------------------------------- errors.Is / As
\* errors.Is with a comparable target and no Is methods: err == target at
\* some level of the chain
RECURSIVE errorsIs_ByMessage(_, _)
errorsIs_ByMessage(e, target) ==
  IF e = Nil \/ target = Nil THEN e = target
  ELSE IF Msg(e[1]) = Msg(target[1]) THEN TRUE
  ELSE IF Unwrap(e) = Nil THEN FALSE
  ELSE errorsIs_ByMessage(Unwrap(e), target)

RECURSIVE errorsIs(_, _)
errorsIs(e, target) ==
  IF e = Nil \/ target = Nil THEN e = target
  ELSE IF e = target THEN TRUE
  ELSE IF Unwrap(e) = Nil THEN FALSE
  ELSE errorsIs(Unwrap(e), target)

\* errors.As(err, &target) for a target of type T: the first element of the
\* chain whose type is assignable to T (any element when T is the interface
\* type error).  As with errors.Is above, the element types modelled are
\* those of the repository: none defines an Is or As method, and a chain is
\* linear (Unwrap() error).
errorsAs_OuterOnly(e, T) ==
  IF e # Nil /\ (T = "error" \/ TypeOf(e) = T)
  THEN [ok |-> TRUE, val |-> e]
  ELSE [ok |-> FALSE, val |-> Nil]

RECURSIVE errorsAs(_, _)
errorsAs(e, T) ==
  IF e = Nil THEN [ok |-> FALSE, val |-> Nil]
  ELSE IF T = "error" \/ TypeOf(e) = T THEN [ok |-> TRUE, val |-> e]
  ELSE errorsAs(Unwrap(e), T)

\* ---------------------------------------------------------------- handlers
\* user handlers func(error) error: 1 returns nil, 2 returns
\* fmt.Errorf("...: %w", e), 3 panics ("handler panic") and returns nothing
UserHandlers == {1, 2, 3}

UserHandler(h, arg) ==
  IF h = 2 THEN <<Elem("wrapError", 9)>> \o arg ELSE Nil

UserPanics(h) == h = 3

\* a call of a user function, as an entry of the invocation log
UserCall(h, arg) == [fn |-> "user", h |-> h, arg |-> arg]

\* the closure OnCustomError returns: extract T from the chain, hand the
\* extracted value to the user's handler
AdaptedHandler_PassesOuter(T, h, e) ==
  LET typedErr == errorsAs(e, T) IN
    IF typedErr.ok
    THEN [result |-> UserHandler(h, e), calls |-> <<UserCall(h, e)>>,
          panics |-> UserPanics(h)]
    ELSE [result |-> Nil, calls |-> <<>>, panics |-> FALSE]

AdaptedHandler_ExtractsOuterOnly(T, h, e) ==
  LET typedErr == errorsAs_OuterOnly(e, T) IN
    IF typedErr.ok
    THEN [result |-> UserHandler(h, typedErr.val), calls |-> <<UserCall(h, typedErr.val)>>,
          panics |-> UserPanics(h)]
    ELSE [result |-> Nil, calls |-> <<>>, panics |-> FALSE]

AdaptedHandler(T, h, e) ==
  LET typedErr == errorsAs(e, T) IN
    IF typedErr.ok
    THEN [result |-> UserHandler(h, typedErr.val), calls |-> <<UserCall(h, typedErr.val)>>,
          panics |-> UserPanics(h)]
    ELSE [result |-> Nil, calls |-> <<>>, panics |-> FALSE]

\* matcher.Handler(err): the Handler field is either a user function or the
\* closure of OnCustomError; panics tells that the user's function panicked
CallHandler(H, e) ==
  IF H.kind = "adapted" THEN AdaptedHandler(H.T, H.h, e)
  ELSE [result |-> UserHandler(H.h, e), calls |-> <<UserCall(H.h, e)>>,
        panics |-> UserPanics(H.h)]

\* ---------------------------------------------------------------- matchers
ErrorMatcher(errorType, handler, isSentinel) ==
  [ErrorType |-> errorType, Handler |-> handler, IsSentinel |-> isSentinel]

OnSentinelError(sentinelErr, h) ==
  ErrorMatcher(sentinelErr, [kind |-> "user", T |-> "none", h |-> h], TRUE)

OnCustomError(T, h) ==
  ErrorMatcher(Zero(T), [kind |-> "adapted", T |-> T, h |-> h], FALSE)

\* the current names of the two builders
OnSentinel(sentinelErr, h) == OnSentinelError(sentinelErr, h)

OnType(T, h) == OnCustomError(T, h)

\* a value that is not an error: the string "not an error"
NotAnError == <<Elem("string", 0)>>

\* matchers written as struct literals, with a rule invalid for their kind
RawMatchers ==
  {ErrorMatcher(NotAnError, [kind |-> "user", T |-> "none", h |-> 2], TRUE),
   ErrorMatcher(Nil, [kind |-> "user", T |-> "none", h |-> 2], TRUE),
   ErrorMatcher(NotAnError, [kind |-> "user", T |-> "none", h |-> 2], FALSE),
   ErrorMatcher(Nil, [kind |-> "user", T |-> "none", h |-> 2], FALSE)}

BuiltMatchers ==
  {OnSentinelError(ErrSentinel1, 1), OnSentinelError(ErrSentinel1, 2),
   OnSentinelError(ErrSentinel2, 2), OnSentinelError(ErrSentinel2, 3),
   OnCustomError("PtrCustomError", 2), OnCustomError("CustomError", 1),
   OnCustomError("error", 1)}

Matchers == BuiltMatchers \cup RawMatchers

MatcherLists == UNION {[1..n -> Matchers] : n \in 0..MaxMatchers}

\* ---------------------------------------------------------------- outcomes
NoPanic == [msg |-> "", typ |-> "", val |-> Nil]

\* the value a panicking user handler panics with
HandlerPanic == [msg |-> "handler panic", typ |-> "", val |-> Nil]

Returned(ok, result, sel, tested, invoked) ==
  [kind |-> "return", ok |-> ok, result |-> result, panic |-> NoPanic,
   sel |-> sel, tested |-> tested, invoked |-> invoked]

Panicked(p, sel, tested, invoked) ==
  [kind |-> "panic", ok |-> FALSE, result |-> Nil, panic |-> p,
   sel |-> sel, tested |-> tested, invoked |-> invoked]

\* the log entries of matcher.Handler(err) for matcher i
HandlerLog(i, H, e) ==
  <<[fn |-> "Handler", h |-> i, arg |-> e]>> \o CallHandler(H, e).calls

\* -------------------------------------------------------------- HandleError
\* the loop of HandleError from matcher i on; tested is the list of the
\* matchers tested so far
RECURSIVE HandleLoop_PassesSentinel(_, _, _, _)
HandleLoop_PassesSentinel(e, matchers, i, tested) ==
  IF i > Len(matchers) THEN Returned(FALSE, e, 0, tested, <<>>)
  ELSE
    LET matcher == matchers[i]
        t == Append(tested, i)
        arg == IF matcher.IsSentinel THEN matcher.ErrorType ELSE e
        run == IF CallHandler(matcher.Handler, arg).panics
               THEN Panicked(HandlerPanic, i, t, HandlerLog(i, matcher.Handler, arg))
               ELSE Returned(TRUE, CallHandler(matcher.Handler, arg).result, i, t,
                             HandlerLog(i, matcher.Handler, arg))
    IN
      IF matcher.IsSentinel
      THEN IF IsErrorValue(matcher.ErrorType) /\ errorsIs(e, matcher.ErrorType)
           THEN run
           ELSE HandleLoop_PassesSentinel(e, matchers, i + 1, t)
      ELSE
        LET errorType == TypeOf(matcher.ErrorType) IN
          IF errorType = "nil"
          THEN Panicked([msg |-> "reflect: New(nil)", typ |-> "", val |-> Nil], 0, t, <<>>)
          ELSE IF errorType \notin ErrorTypes
          THEN Panicked([msg |-> "errors: *target must be interface or implement error",
                         typ |-> "", val |-> Nil], 0, t, <<>>)
          ELSE IF errorsAs(e, errorType).ok
          THEN run
          ELSE HandleLoop_PassesSentinel(e, matchers, i + 1, t)

RECURSIVE HandleLoop(_, _, _, _)
HandleLoop(e, matchers, i, tested) ==
  IF i > Len(matchers) THEN Returned(FALSE, e, 0, tested, <<>>)
  ELSE
    LET matcher == matchers[i]
        t == Append(tested, i)
        run == IF CallHandler(matcher.Handler, e).panics
               THEN Panicked(HandlerPanic, i, t, HandlerLog(i, matcher.Handler, e))
               ELSE Returned(TRUE, CallHandler(matcher.Handler, e).result, i, t,
                             HandlerLog(i, matcher.Handler, e))
    IN
      IF matcher.IsSentinel
      THEN IF IsErrorValue(matcher.ErrorType) /\ errorsIs(e, matcher.ErrorType)
           THEN run
           ELSE HandleLoop(e, matchers, i + 1, t)
      ELSE
        LET errorType == TypeOf(matcher.ErrorType) IN
          IF errorType = "nil"
          THEN Panicked([msg |-> "reflect: New(nil)", typ |-> "", val |-> Nil], 0, t, <<>>)
          ELSE IF errorType \notin ErrorTypes
          THEN Panicked([msg |-> "errors: *target must be interface or implement error",
                         typ |-> "", val |-> Nil], 0, t, <<>>)
          ELSE IF errorsAs(e, errorType).ok
          THEN run
          ELSE HandleLoop(e, matchers, i + 1, t)

HandleError_NoNilCheck(e, matchers) == HandleLoop(e, matchers, 1, <<>>)

HandleError_ReturnsNil(e, matchers) ==
  LET r == HandleLoop(e, matchers, 1, <<>>) IN
    IF e = Nil THEN Returned(TRUE, Nil, 0, <<>>, <<>>)
    ELSE IF r.kind = "return" /\ ~r.ok THEN [r EXCEPT !.result = Nil]
    ELSE r

HandleError(e, matchers) ==
  IF e = Nil THEN Returned(TRUE, Nil, 0, <<>>, <<>>)
  ELSE HandleLoop(e, matchers, 1, <<>>)

\* a panic inside HandleError propagates through both callers below
HandleErrorOrDie_OverNilResult(e, matchers) ==
  LET r == HandleError_ReturnsNil(e, matchers) IN
    IF r.kind = "panic" THEN r
    ELSE IF ~r.ok
    THEN Panicked([msg |-> "Unhandled error of type %T: %v",
                   typ |-> TypeOf(r.result), val |-> r.result],
                  r.sel, r.tested, r.invoked)
    ELSE r

HandleErrorOrDie(e, matchers) ==
  LET r == HandleError(e, matchers) IN
    IF r.kind = "panic" THEN r
    ELSE IF ~r.ok
    THEN Panicked([msg |-> "Unhandled error of type %T: %v",
                   typ |-> TypeOf(r.result), val |-> r.result],
                  r.sel, r.tested, r.invoked)
    ELSE r

\* dft = 0 is the nil default handler
HandleErrorOrDefault_RecoversPanic(e, d, matchers) ==
  LET r == HandleError(e, matchers) IN
    IF r.kind = "panic" /\ r.sel = 0 THEN r
    ELSE IF ~r.ok
    THEN IF d = 0 THEN Returned(FALSE, Nil, r.sel, r.tested, r.invoked)
         ELSE Returned(FALSE, UserHandler(d, e), r.sel, r.tested,
                       Append(r.invoked, [fn |-> "dft", h |-> d, arg |-> e]))
    ELSE r

HandleErrorOrDefault(e, d, matchers) ==
  LET r == HandleError(e, matchers) IN
    IF r.kind = "panic" THEN r
    ELSE IF ~r.ok
    THEN IF d = 0 THEN [r EXCEPT !.result = Nil]
         ELSE [r EXCEPT !.result = UserHandler(d, r.result),
                        !.invoked = Append(r.invoked, [fn |-> "dft", h |-> d, arg |-> r.result])]
    ELSE r

DefaultHandlers == {0, 2}

\* the current names: package variables initialised with the deprecated
\* functions and never assigned again
Handle_AsDocumented(e, matchers) == HandleError_ReturnsNil(e, matchers)

Handle(e, matchers) == HandleError(e, matchers)

MustHandle(e, matchers) == HandleErrorOrDie(e, matchers)

HandleOr(e, d, matchers) == HandleErrorOrDefault(e, d, matchers)

\* ------------------------------------------------------------ slice: cycles
\* bounds of the slice specification: the longest item list, and the calls
\* made to one returned function
MaxItems == 3

MaxCalls == 6

\* random draws one function can make in MaxCalls calls: one at construction
\* and one per completed cycle, the shortest cycle having two calls
MaxDraws == MaxCalls \div 2 + 1

\* the zero value of the item type, and a list of n distinct non-zero items
ZeroItem == 0

Items(n) == [i \in 1..n |-> i]

\* Cycle(items...): the variables the returned function closes over
Cycle(items) == [index |-> 0]

\* one call of the function Cycle returned: the item and the new index
CycleNext_SticksAtLast(items, index) ==
  IF Len(items) = 0
  THEN [item |-> ZeroItem, index |-> index]
  ELSE [item |-> items[index + 1],
        index |-> IF index + 1 = Len(items) THEN index ELSE index + 1]

CycleNext(items, index) ==
  IF Len(items) = 0
  THEN [item |-> ZeroItem, index |-> index]
  ELSE [item |-> items[index + 1], index |-> (index + 1) % Len(items)]

\* the generator RandomCycle draws from: the caller's, or one seeded from
\* the clock when the caller passed nil
LocalRand_AlwaysFromClock(localRand) == "clock"

LocalRand(localRand) == IF localRand = "nil" THEN "clock" ELSE localRand

\* the values the next IntN(n) of a generator can give: a seeded generator
\* that has made pos draws gives the next value of its seed's sequence, a
\* generator seeded from the clock any value below n
IntN(rnd, seed, pos, n) ==
  IF rnd = "seeded" THEN {seed[pos + 1]} ELSE 0..(n - 1)

\* RandomCycle(localRand, items...): the variables the returned function
\* closes over, d being the index drawn when there are two items or more
RandomCycle(items, d) ==
  IF Len(items) < 2
  THEN [currentIndex |-> 0, stopIndex |-> 0, drew |-> FALSE]
  ELSE [currentIndex |-> d, stopIndex |-> d, drew |-> TRUE]

\* whether the next call of the returned function ends a cycle and draws
Redraws(items, st) ==
  /\ Len(items) >= 2
  /\ (IF st.currentIndex + 1 = Len(items) THEN 0 ELSE st.currentIndex + 1) = st.stopIndex

\* one call of the function RandomCycle returned, d being the value IntN
\* gives if the call draws
RandomCycleNext_KeepsStop(items, st, d) ==
  IF Len(items) = 0
  THEN [item |-> ZeroItem, currentIndex |-> st.currentIndex,
        stopIndex |-> st.stopIndex, drew |-> FALSE]
  ELSE IF Len(items) = 1
  THEN [item |-> items[1], currentIndex |-> st.currentIndex,
        stopIndex |-> st.stopIndex, drew |-> FALSE]
  ELSE LET c1 == st.currentIndex + 1
           c2 == IF c1 = Len(items) THEN 0 ELSE c1
       IN  IF c2 = st.stopIndex
           THEN [item |-> items[st.currentIndex + 1], currentIndex |-> d,
                 stopIndex |-> st.stopIndex, drew |-> TRUE]
           ELSE [item |-> items[st.currentIndex + 1], currentIndex |-> c2,
                 stopIndex |-> st.stopIndex, drew |-> FALSE]

RandomCycleNext_ZeroForOne(items, st, d) ==
  IF Len(items) <= 1
  THEN [item |-> ZeroItem, currentIndex |-> st.currentIndex,
        stopIndex |-> st.stopIndex, drew |-> FALSE]
  ELSE LET c1 == st.currentIndex + 1
           c2 == IF c1 = Len(items) THEN 0 ELSE c1
       IN  IF c2 = st.stopIndex
           THEN [item |-> items[st.currentIndex + 1], currentIndex |-> d,
                 stopIndex |-> d, drew |-> TRUE]
           ELSE [item |-> items[st.currentIndex + 1], currentIndex |-> c2,
                 stopIndex |-> st.stopIndex, drew |-> FALSE]

RandomCycleNext(items, st, d) ==
  IF Len(items) = 0
  THEN [item |-> ZeroItem, currentIndex |-> st.currentIndex,
        stopIndex |-> st.stopIndex, drew |-> FALSE]
  ELSE IF Len(items) = 1
  THEN [item |-> items[1], currentIndex |-> st.currentIndex,
        stopIndex |-> st.stopIndex, drew |-> FALSE]
  ELSE LET c1 == st.currentIndex + 1
           c2 == IF c1 = Len(items) THEN 0 ELSE c1
       IN  IF c2 = st.stopIndex
           THEN [item |-> items[st.currentIndex + 1], currentIndex |-> d,
                 stopIndex |-> d, drew |-> TRUE]
           ELSE [item |-> items[st.currentIndex + 1], currentIndex |-> c2,
                 stopIndex |-> st.stopIndex, drew |-> FALSE]

\* ---------------------------------------------------------- maps: UpdateMap
\* bounds of the map specification: keys are 1..MaxKey, values 0..MaxVal
MaxKey == 3

MaxVal == 1

Keys == 1..MaxKey

\* the values of the value type, 0 being its zero value
Values == 0..MaxVal

\* a Go map variable holds nil or a reference to a map in memory
NilRef == 0

\* the maps in memory: the one the caller's old variable may refer to, the
\* one its new variable may refer to, and the one make(T) creates
OldId == 1

NewId == 2

MadeId == 3

MapIds == {OldId, NewId, MadeId}

EmptyMap == [k \in {} |-> 0]

MapValues == UNION {[D -> Values] : D \in SUBSET Keys}

\* the entries read through a map variable; a nil map reads as empty
Lookup(heap, ref) == IF ref = NilRef THEN EmptyMap ELSE heap[ref]

\* InitMap(m): the memory and the variable *m afterwards
InitMap_AlwaysMakes(heap, m) ==
  [heap |-> [heap EXCEPT ![MadeId] = EmptyMap], m |-> MadeId]

InitMap(heap, m) ==
  IF m = NilRef
  THEN [heap |-> [heap EXCEPT ![MadeId] = EmptyMap], m |-> MadeId]
  ELSE [heap |-> heap, m |-> m]

\* maps.Copy(dst, src): every entry of src is stored in dst
mapsCopy_KeepsExisting(dst, src) ==
  [k \in DOMAIN dst \cup DOMAIN src |-> IF k \in DOMAIN dst THEN dst[k] ELSE src[k]]

mapsCopy(dst, src) ==
  [k \in DOMAIN dst \cup DOMAIN src |-> IF k \in DOMAIN src THEN src[k] ELSE dst[k]]

\* UpdateMap(oldMap, newMap): the memory and the variable *oldMap afterwards
UpdateMap_Rebinds(heap, oldMap, newMap) ==
  [heap |-> [heap EXCEPT ![MadeId] = mapsCopy(Lookup(heap, oldMap), Lookup(heap, newMap))],
   m |-> MadeId]

UpdateMap(heap, oldMap, newMap) ==
  LET i == InitMap(heap, oldMap) IN
    [heap |-> [i.heap EXCEPT ![i.m] = mapsCopy(i.heap[i.m], Lookup(i.heap, newMap))],
     m |-> i.m]

\* ------------------------------------------------------------ number: NumLen
\* the integer types NumLen is checked for, each with all its values
IntTypes == {"int8", "uint8", "int16"}

Signed(t) == t \in {"int8", "int16"}

Bits(t) == IF t \in {"int8", "uint8"} THEN 8 ELSE 16

MinOf(t) == IF Signed(t) THEN -(2 ^ (Bits(t) - 1)) ELSE 0

MaxOf(t) == IF Signed(t) THEN 2 ^ (Bits(t) - 1) - 1 ELSE 2 ^ Bits(t) - 1

\* the value of type t that holds the mathematical result x of an
\* arithmetic operation: x wraps around modulo 2^Bits(t)
Wrap(t, x) ==
  LET r == x % (2 ^ Bits(t)) IN
    IF r > MaxOf(t) THEN r - 2 ^ Bits(t) ELSE r

\* Go's integer division truncates toward zero
Quo(a, b) == IF a < 0 THEN -((-a) \div b) ELSE a \div b

\* the loop conditions of NumLen: number < 0 in the branch taken by a
\* negative argument, number > 0 in the other
Continues_PositiveOnly(neg, number) == number > 0

Continues(neg, number) == IF neg THEN number < 0 ELSE number > 0

\* one iteration of either loop in type t: number /= 10; count++, and
\* whether a result left the range of t before it was stored
NumLenStep(t, number, count) ==
  [number |-> Wrap(t, Quo(number, 10)),
   count |-> Wrap(t, count + 1),
   overflow |-> \/ Quo(number, 10) < MinOf(t) \/ Quo(number, 10) > MaxOf(t)
                \/ count + 1 > MaxOf(t)]

\* ------------------------------------------------------ parser: ParseString
\* the longest raw string, over the characters of Chars
MaxStrLen == 3

Chars == {"-", "0", "1", "9", "t"}

RawStrings == UNION {[1..n -> Chars] : n \in 0..MaxStrLen}

\* the target types the parser is checked for
ParseTypes == {"string", "int8", "uint8", "bool"}

\* the zero value of a target type
ZeroOf(T) ==
  CASE T = "string" -> <<>>
    [] T = "bool" -> FALSE
    [] OTHER -> 0

DigitChars == {"0", "1", "9"}

DigitVal(c) == CASE c = "0" -> 0 [] c = "1" -> 1 [] OTHER -> 9

\* the number a string of decimal digits denotes
RECURSIVE Decimal(_)
Decimal(ds) ==
  IF Len(ds) = 0 THEN 0
  ELSE 10 * Decimal(SubSeq(ds, 1, Len(ds) - 1)) + DigitVal(ds[Len(ds)])

AllDigits(ds) == Len(ds) > 0 /\ \A k \in 1..Len(ds) : ds[k] \in DigitChars

\* strconv.ParseInt(raw, 10, bits): an optional sign, then digits; a value
\* out of the range of bits gives a range error
strconvParseInt(raw, bits) ==
  LET neg == Len(raw) > 0 /\ raw[1] = "-"
      ds == IF neg THEN SubSeq(raw, 2, Len(raw)) ELSE raw
      v == IF neg THEN -Decimal(ds) ELSE Decimal(ds)
  IN  IF ~AllDigits(ds) THEN [v |-> 0, err |-> "ErrSyntax"]
      ELSE IF v < -(2 ^ (bits - 1)) THEN [v |-> -(2 ^ (bits - 1)), err |-> "ErrRange"]
      ELSE IF v > 2 ^ (bits - 1) - 1 THEN [v |-> 2 ^ (bits - 1) - 1, err |-> "ErrRange"]
      ELSE [v |-> v, err |-> "nil"]

\* strconv.ParseUint(raw, 10, bits): digits only
strconvParseUint(raw, bits) ==
  IF ~AllDigits(raw) THEN [v |-> 0, err |-> "ErrSyntax"]
  ELSE IF Decimal(raw) > 2 ^ bits - 1 THEN [v |-> 2 ^ bits - 1, err |-> "ErrRange"]
  ELSE [v |-> Decimal(raw), err |-> "nil"]

\* strconv.ParseBool(raw), for the strings over Chars
strconvParseBool(raw) ==
  IF raw \in {<<"1">>, <<"t">>} THEN [v |-> TRUE, err |-> "nil"]
  ELSE IF raw = <<"0">> THEN [v |-> FALSE, err |-> "nil"]
  ELSE [v |-> FALSE, err |-> "ErrSyntax"]

\* ParseString[T](rawValue): the value and the error; on an error the
\* value is the zero value of T, not what the conversion returned
ParseString(T, rawValue) ==
  LET r == CASE T = "int8" -> strconvParseInt(rawValue, 8)
             [] T = "uint8" -> strconvParseUint(rawValue, 8)
             [] T = "bool" -> strconvParseBool(rawValue)
             [] OTHER -> [v |-> rawValue, err |-> "nil"]
  IN  IF r.err # "nil"
      THEN [value |-> ZeroOf(T), err |-> r.err]
      ELSE [value |-> r.v, err |-> "nil"]

\* ParseStringOrZero[T](rawValue); it returns no error
ParseStringOrZero(T, rawValue) ==
  [value |-> ParseString(T, rawValue).value, err |-> "none"]

\* ParseStringWithDefault(rawValue, dft)
ParseStringWithDefault_KeepsParsed(T, rawValue, dft) ==
  LET r == ParseString(T, rawValue) IN
    [value |-> r.value, err |-> r.err]

ParseStringWithDefault(T, rawValue, dft) ==
  LET r == ParseString(T, rawValue) IN
    IF r.err # "nil"
    THEN [value |-> dft, err |-> r.err]
    ELSE [value |-> r.value, err |-> "nil"]

\* ParseStringOrDefault(rawValue, dft); it returns no error
ParseStringOrDefault(T, rawValue, dft) ==
  LET r == ParseString(T, rawValue) IN
    IF r.err # "nil"
    THEN [value |-> dft, err |-> "none"]
    ELSE [value |-> r.value, err |-> "none"]

\* the default values a caller passes for a target type
Defaults(T) ==
  CASE T = "string" -> {<<>>, <<"t">>}
    [] T = "bool" -> {FALSE, TRUE}
    [] T = "int8" -> {0, 1, -1}
    [] OTHER -> {0, 1}

\* ------------------------------------------------------------ state machine
\* one dispatch at a time: the call, its arguments and its outcome
VARIABLES pc, op, err, dft, matchers, out

\* dispatches of several goroutines over one matcher list: the list in
\* memory, the list as it was built, and per goroutine the position in
\* HandleError, its error, its loop index and its outcome; shSeen keeps the
\* first outcome observed for each error
VARIABLES shM, shM0, shPc, shErr, shI, shOut, shSeen

\* one Cycle function and two RandomCycle functions over one item list:
\* the items, the generator argument given to both RandomCycle calls, the
\* sequence a seeded generator gives, the variables each function closes
\* over, and what each has returned and drawn so far
VARIABLES slItems, slRand, slSeed, cy, rc

\* calls of InitMap and UpdateMap: the maps in memory, the caller's old and
\* new variables, another variable of the caller assigned from old before
\* the calls, the last operation, and memory and variables before it
VARIABLES mpHeap, mpOld, mpNew, mpAlias, mpOp, mpPrev

\* one call of NumLen: its position, the type and the argument, the local
\* variables number and count, the branch taken, the value returned, and
\* whether an operation overflowed
VARIABLES nlPc, nlT, nlN, nlNumber, nlCount, nlNeg, nlRet, nlOvf

\* one call of a function of the parser: the function, the target type,
\* the raw string, the default value and what was returned
VARIABLES psOp, psT, psRaw, psDft, psOut

errVars == <<pc, op, err, dft, matchers, out>>

shVars == <<shM, shM0, shPc, shErr, shI, shOut, shSeen>>

slVars == <<slItems, slRand, slSeed, cy, rc>>

mpVars == <<mpHeap, mpOld, mpNew, mpAlias, mpOp, mpPrev>>

nlVars == <<nlPc, nlT, nlN, nlNumber, nlCount, nlNeg, nlRet, nlOvf>>

psVars == <<psOp, psT, psRaw, psDft, psOut>>

vars == <<errVars, shVars, slVars, mpVars, nlVars, psVars>>

\* what each specification leaves alone
notErr == <<shVars, slVars, mpVars, nlVars, psVars>>

notSh == <<errVars, slVars, mpVars, nlVars, psVars>>

notSl == <<errVars, shVars, mpVars, nlVars, psVars>>

notMp == <<errVars, shVars, slVars, nlVars, psVars>>

notNl == <<errVars, shVars, slVars, mpVars, psVars>>

notPs == <<errVars, shVars, slVars, mpVars, nlVars>>

NoCall == Returned(FALSE, Nil, 0, <<>>, <<>>)

Goroutines == {1, 2}

\* what a caller observes of a dispatch
Observed(r) ==
  [kind |-> r.kind, ok |-> r.ok, result |-> r.result, sel |-> r.sel, panic |-> r.panic]

NotObserved == [kind |-> "none", ok |-> FALSE, result |-> Nil, sel |-> 0, panic |-> NoPanic]

SharedErrors == {Nil, ErrSentinel1, <<Elem("wrapError", 1), Elem("PtrCustomError", 1)>>}

SharedMatchers ==
  {OnSentinel(ErrSentinel1, 1), OnSentinel(ErrSentinel1, 2), OnType("PtrCustomError", 2),
   OnSentinel(ErrSentinel1, 3), ErrorMatcher(Nil, [kind |-> "user", T |-> "none", h |-> 2], FALSE)}

SharedLists == UNION {[1..n -> SharedMatchers] : n \in 0..MaxMatchers}

ErrIdle ==
  /\ pc = "idle"
  /\ op = "none"
  /\ err = Nil
  /\ dft = 0
  /\ matchers = <<>>
  /\ out = NoCall

ShIdle ==
  /\ shM = <<>>
  /\ shM0 = <<>>
  /\ shPc = [g \in Goroutines |-> "idle"]
  /\ shErr = [g \in Goroutines |-> Nil]
  /\ shI = [g \in Goroutines |-> 0]
  /\ shOut = [g \in Goroutines |-> NotObserved]
  /\ shSeen = [e \in SharedErrors |-> NotObserved]

Instances == {1, 2}

SlIdle ==
  /\ slItems = <<>>
  /\ slRand = "nil"
  /\ slSeed = <<>>
  /\ cy = [index |-> 0, hist |-> <<>>]
  /\ rc = [i \in Instances |-> [currentIndex |-> 0, stopIndex |-> 0, hist |-> <<>>, draws |-> <<>>]]

MpIdle ==
  /\ mpHeap = [i \in MapIds |-> EmptyMap]
  /\ mpOld = NilRef
  /\ mpNew = NilRef
  /\ mpAlias = NilRef
  /\ mpOp = "none"
  /\ mpPrev = [heap |-> mpHeap, old |-> NilRef, new |-> NilRef]

NlIdle ==
  /\ nlPc = "idle"
  /\ nlT = "int8"
  /\ nlN = 0
  /\ nlNumber = 0
  /\ nlCount = 0
  /\ nlNeg = FALSE
  /\ nlRet = 0
  /\ nlOvf = FALSE

PsIdle ==
  /\ psOp = "none"
  /\ psT = "string"
  /\ psRaw = <<>>
  /\ psDft = <<>>
  /\ psOut = [value |-> <<>>, err |-> "none"]

Init == ErrIdle /\ ShIdle /\ SlIdle /\ MpIdle /\ NlIdle /\ PsIdle

CallHandle ==
  /\ pc = "idle"
  /\ \E e \in Errors, M \in MatcherLists :
       /\ err' = e
       /\ matchers' = M
       /\ out' = Handle(e, M)
  /\ op' = "Handle"
  /\ dft' = 0
  /\ pc' = "done"
  /\ UNCHANGED notErr

CallMustHandle ==
  /\ pc = "idle"
  /\ \E e \in Errors, M \in MatcherLists :
       /\ err' = e
       /\ matchers' = M
       /\ out' = MustHandle(e, M)
  /\ op' = "MustHandle"
  /\ dft' = 0
  /\ pc' = "done"
  /\ UNCHANGED notErr

CallHandleOr ==
  /\ pc = "idle"
  /\ \E e \in Errors, d \in DefaultHandlers, M \in MatcherLists :
       /\ err' = e
       /\ dft' = d
       /\ matchers' = M
       /\ out' = HandleOr(e, d, M)
  /\ op' = "HandleOr"
  /\ pc' = "done"
  /\ UNCHANGED notErr

\* the caller calls the Handler field of a matcher OnCustomError built
\* directly, on any error, without a dispatch
CallMatcherHandler ==
  /\ pc = "idle"
  /\ \E e \in Errors, m \in {x \in BuiltMatchers : ~x.IsSentinel} :
       LET r == CallHandler(m.Handler, e) IN
         /\ err' = e
         /\ matchers' = <<m>>
         /\ out' = IF r.panics
                   THEN Panicked(HandlerPanic, 0, <<>>, r.calls)
                   ELSE Returned(FALSE, r.result, 0, <<>>, r.calls)
  /\ op' = "Handler"
  /\ dft' = 0
  /\ pc' = "done"
  /\ UNCHANGED notErr

\* the caller has consumed the outcome; the dispatcher keeps nothing
Finish ==
  /\ pc = "done"
  /\ pc' = "idle"
  /\ op' = "none"
  /\ err' = Nil
  /\ dft' = 0
  /\ matchers' = <<>>
  /\ out' = NoCall
  /\ UNCHANGED notErr

Next == CallHandle \/ CallMustHandle \/ CallHandleOr \/ CallMatcherHandler \/ Finish

Spec == Init /\ [][Next]_vars

\* ------------------------------------------- dispatches over a shared list
\* one iteration of the loop of HandleError on the shared list: the matcher
\* at index i is read and tested against e; the list is only read
ConcTest_MoveToFront(M, e, i) ==
  LET r == HandleLoop(e, <<M[i]>>, 1, <<>>) IN
    [matchers |-> IF r.kind = "return" /\ r.ok
                  THEN <<M[i]>> \o SubSeq(M, 1, i - 1) \o SubSeq(M, i + 1, Len(M))
                  ELSE M,
     r |-> r]

ConcTest_DropsMatched(M, e, i) ==
  LET r == HandleLoop(e, <<M[i]>>, 1, <<>>) IN
    [matchers |-> IF r.kind = "return" /\ r.ok
                  THEN SubSeq(M, 1, i - 1) \o SubSeq(M, i + 1, Len(M))
                  ELSE M,
     r |-> r]

ConcTest(M, e, i) ==
  [matchers |-> M, r |-> HandleLoop(e, <<M[i]>>, 1, <<>>)]

ShInit ==
  /\ shM \in SharedLists
  /\ shM0 = shM
  /\ shPc = [g \in Goroutines |-> "idle"]
  /\ shErr = [g \in Goroutines |-> Nil]
  /\ shI = [g \in Goroutines |-> 0]
  /\ shOut = [g \in Goroutines |-> NotObserved]
  /\ shSeen = [e \in SharedErrors |-> NotObserved]

InitShared == ErrIdle /\ ShInit /\ SlIdle /\ MpIdle /\ NlIdle /\ PsIdle

\* goroutine g ends its dispatch of e with outcome o
ShFinish(g, e, o) ==
  /\ shPc' = [shPc EXCEPT ![g] = "done"]
  /\ shOut' = [shOut EXCEPT ![g] = o]
  /\ shSeen' = IF shSeen[e].kind = "none" THEN [shSeen EXCEPT ![e] = o] ELSE shSeen

\* goroutine g calls Handle(e, shared...): the nil test of HandleError
ShCall(g) ==
  /\ shPc[g] = "idle"
  /\ \E e \in SharedErrors :
       /\ shErr' = [shErr EXCEPT ![g] = e]
       /\ IF e = Nil
          THEN /\ ShFinish(g, e, Observed(Returned(TRUE, Nil, 0, <<>>, <<>>)))
               /\ shI' = shI
          ELSE /\ shPc' = [shPc EXCEPT ![g] = "loop"]
               /\ shI' = [shI EXCEPT ![g] = 1]
               /\ UNCHANGED <<shOut, shSeen>>
  /\ UNCHANGED <<shM, shM0, notSh>>

\* goroutine g runs one iteration of the loop, or leaves it at the end of
\* the list
ShTest(g) ==
  /\ shPc[g] = "loop"
  /\ IF shI[g] > Len(shM)
     THEN /\ ShFinish(g, shErr[g], Observed(Returned(FALSE, shErr[g], 0, <<>>, <<>>)))
          /\ UNCHANGED <<shM, shI>>
     ELSE LET step == ConcTest(shM, shErr[g], shI[g]) IN
            /\ shM' = step.matchers
            /\ IF step.r.kind = "return" /\ ~step.r.ok
               THEN /\ shI' = [shI EXCEPT ![g] = shI[g] + 1]
                    /\ UNCHANGED <<shPc, shOut, shSeen>>
               ELSE /\ ShFinish(g, shErr[g],
                                [Observed(step.r) EXCEPT
                                   !.sel = IF step.r.sel > 0 THEN shI[g] ELSE 0])
                    /\ shI' = shI
  /\ UNCHANGED <<shM0, shErr, notSh>>

\* the caller of goroutine g has taken the outcome (a panic is recovered by
\* the caller, as the tests do) and may dispatch again
ShReturn(g) ==
  /\ shPc[g] = "done"
  /\ shPc' = [shPc EXCEPT ![g] = "idle"]
  /\ shOut' = [shOut EXCEPT ![g] = NotObserved]
  /\ shErr' = [shErr EXCEPT ![g] = Nil]
  /\ shI' = [shI EXCEPT ![g] = 0]
  /\ UNCHANGED <<shM, shM0, shSeen, notSh>>

NextShared == \E g \in Goroutines : ShCall(g) \/ ShTest(g) \/ ShReturn(g)

SpecShared == InitShared /\ [][NextShared]_vars

\* --------------------------------------------------- cycles over one list
\* the sequences a seeded generator can give for lists of n items
Seeds(n) == [1..MaxDraws -> 0..(IF n = 0 THEN 0 ELSE n - 1)]

\* the caller builds the item list, calls Cycle once and RandomCycle twice,
\* either with nil or with two generators of the same seed
SlInit ==
  /\ \E n \in 0..MaxItems : slItems = Items(n)
  /\ slRand \in {"nil", "seeded"}
  /\ slSeed \in IF slRand = "seeded" THEN Seeds(Len(slItems)) ELSE {[k \in 1..MaxDraws |-> 0]}
  /\ cy = [index |-> Cycle(slItems).index, hist |-> <<>>]
  /\ \E d \in [Instances -> 0..MaxItems] :
       /\ \A i \in Instances :
            d[i] \in IF Len(slItems) >= 2
                     THEN IntN(LocalRand(slRand), slSeed, 0, Len(slItems))
                     ELSE {0}
       /\ rc = [i \in Instances |->
                  LET st == RandomCycle(slItems, d[i]) IN
                    [currentIndex |-> st.currentIndex, stopIndex |-> st.stopIndex,
                     hist |-> <<>>, draws |-> IF st.drew THEN <<d[i]>> ELSE <<>>]]

InitSlice == ErrIdle /\ ShIdle /\ SlInit /\ MpIdle /\ NlIdle /\ PsIdle

\* the function Cycle returned is called
CallCycle ==
  /\ Len(cy.hist) < MaxCalls
  /\ LET r == CycleNext(slItems, cy.index) IN
       cy' = [index |-> r.index, hist |-> Append(cy.hist, r.item)]
  /\ UNCHANGED <<slItems, slRand, slSeed, rc, notSl>>

\* the function the i-th RandomCycle call returned is called
CallRandomCycle(i) ==
  /\ Len(rc[i].hist) < MaxCalls
  /\ \E d \in IF Redraws(slItems, rc[i])
              THEN IntN(LocalRand(slRand), slSeed, Len(rc[i].draws), Len(slItems))
              ELSE {0} :
       LET r == RandomCycleNext(slItems, rc[i], d) IN
         rc' = [rc EXCEPT ![i] =
                  [currentIndex |-> r.currentIndex, stopIndex |-> r.stopIndex,
                   hist |-> Append(rc[i].hist, r.item),
                   draws |-> IF r.drew THEN Append(rc[i].draws, d) ELSE rc[i].draws]]
  /\ UNCHANGED <<slItems, slRand, slSeed, cy, notSl>>

NextSlice == CallCycle \/ \E i \in Instances : CallRandomCycle(i)

SpecSlice == InitSlice /\ [][NextSlice]_vars

\* ------------------------------------------- RandomCycle called for ever
\* the function the first RandomCycle call returned is called without end,
\* the generator giving any indices; of what it returned only the last
\* Window calls are kept
Forever == {1}

Window(n) == IF n >= 2 THEN 2 * n - 1 ELSE 1

LastCalls(h, w) == IF Len(h) > w THEN SubSeq(h, Len(h) - w + 1, Len(h)) ELSE h

SlInitForever ==
  /\ SlInit
  /\ slRand = "nil"

InitSliceForever == ErrIdle /\ ShIdle /\ SlInitForever /\ MpIdle /\ NlIdle /\ PsIdle

CallRandomCycleAgain(i) ==
  /\ \E d \in IF Redraws(slItems, rc[i])
              THEN IntN(LocalRand(slRand), slSeed, 0, Len(slItems))
              ELSE {0} :
       LET r == RandomCycleNext(slItems, rc[i], d) IN
         rc' = [rc EXCEPT ![i] =
                  [currentIndex |-> r.currentIndex, stopIndex |-> r.stopIndex,
                   hist |-> LastCalls(Append(rc[i].hist, r.item), Window(Len(slItems))),
                   draws |-> rc[i].draws]]
  /\ UNCHANGED <<slItems, slRand, slSeed, cy, notSl>>

NextSliceForever == \E i \in Forever : CallRandomCycleAgain(i)

\* the function goes on being called
SpecSliceForever ==
  /\ InitSliceForever
  /\ [][NextSliceForever]_vars
  /\ \A i \in Forever : WF_vars(CallRandomCycleAgain(i))

\* ------------------------------------------------------- updates of a map
\* the caller holds an old and a new map variable, each nil or a map
MpInit ==
  /\ mpOld \in {NilRef, OldId}
  /\ mpNew \in {NilRef, NewId}
  /\ \E o \in IF mpOld = NilRef THEN {EmptyMap} ELSE MapValues,
        n \in IF mpNew = NilRef THEN {EmptyMap} ELSE MapValues :
       mpHeap = [i \in MapIds |-> IF i = OldId THEN o ELSE IF i = NewId THEN n ELSE EmptyMap]
  /\ mpAlias = mpOld
  /\ mpOp = "none"
  /\ mpPrev = [heap |-> mpHeap, old |-> mpOld, new |-> mpNew]

InitMaps == ErrIdle /\ ShIdle /\ SlIdle /\ MpInit /\ NlIdle /\ PsIdle

\* UpdateMap(&old, new)
CallUpdateMap ==
  /\ LET r == UpdateMap(mpHeap, mpOld, mpNew) IN
       /\ mpHeap' = r.heap
       /\ mpOld' = r.m
  /\ mpOp' = "UpdateMap"
  /\ mpPrev' = [heap |-> mpHeap, old |-> mpOld, new |-> mpNew]
  /\ UNCHANGED <<mpNew, mpAlias, notMp>>

\* InitMap(&old)
CallInitMap ==
  /\ LET r == InitMap(mpHeap, mpOld) IN
       /\ mpHeap' = r.heap
       /\ mpOld' = r.m
  /\ mpOp' = "InitMap"
  /\ mpPrev' = [heap |-> mpHeap, old |-> mpOld, new |-> mpNew]
  /\ UNCHANGED <<mpNew, mpAlias, notMp>>

NextMaps == CallUpdateMap \/ CallInitMap

SpecMaps == InitMaps /\ [][NextMaps]_vars

\* ------------------------------------------------------- calls of NumLen
InitNumLen == ErrIdle /\ ShIdle /\ SlIdle /\ MpIdle /\ NlIdle /\ PsIdle

\* NumLen[t](n) is called: the test for zero, count := 0 and the choice of
\* the loop
NlCall ==
  /\ nlPc = "idle"
  /\ \E t \in IntTypes : \E n \in MinOf(t)..MaxOf(t) :
       /\ nlT' = t
       /\ nlN' = n
       /\ nlNumber' = n
       /\ nlCount' = 0
       /\ nlNeg' = (n < 0)
       /\ IF n = 0
          THEN nlPc' = "done" /\ nlRet' = 1
          ELSE nlPc' = "loop" /\ nlRet' = 0
  /\ nlOvf' = FALSE
  /\ UNCHANGED notNl

\* the loop condition is tested: one more iteration, or return count
NlStep ==
  /\ nlPc = "loop"
  /\ IF Continues(nlNeg, nlNumber)
     THEN LET r == NumLenStep(nlT, nlNumber, nlCount) IN
            /\ nlNumber' = r.number
            /\ nlCount' = r.count
            /\ nlOvf' = (nlOvf \/ r.overflow)
            /\ UNCHANGED <<nlPc, nlRet>>
     ELSE /\ nlPc' = "done"
          /\ nlRet' = nlCount
          /\ UNCHANGED <<nlNumber, nlCount, nlOvf>>
  /\ UNCHANGED <<nlT, nlN, nlNeg, notNl>>

\* the caller has the result
NlReturn ==
  /\ nlPc = "done"
  /\ nlPc' = "idle"
  /\ nlT' = "int8"
  /\ nlN' = 0
  /\ nlNumber' = 0
  /\ nlCount' = 0
  /\ nlNeg' = FALSE
  /\ nlRet' = 0
  /\ nlOvf' = FALSE
  /\ UNCHANGED notNl

NextNumLen == NlCall \/ NlStep \/ NlReturn

SpecNumLen == InitNumLen /\ [][NextNumLen]_vars

\* a running call goes on running
SpecNumLenFair == SpecNumLen /\ WF_vars(NlStep)

\* ------------------------------------------------------ calls of the parser
InitParser == ErrIdle /\ ShIdle /\ SlIdle /\ MpIdle /\ NlIdle /\ PsIdle

CallParseString ==
  /\ psOp = "none"
  /\ \E T \in ParseTypes, raw \in RawStrings :
       /\ psT' = T
       /\ psRaw' = raw
       /\ psDft' = ZeroOf(T)
       /\ psOut' = ParseString(T, raw)
  /\ psOp' = "ParseString"
  /\ UNCHANGED notPs

CallParseStringOrZero ==
  /\ psOp = "none"
  /\ \E T \in ParseTypes, raw \in RawStrings :
       /\ psT' = T
       /\ psRaw' = raw
       /\ psDft' = ZeroOf(T)
       /\ psOut' = ParseStringOrZero(T, raw)
  /\ psOp' = "ParseStringOrZero"
  /\ UNCHANGED notPs

CallParseStringWithDefault ==
  /\ psOp = "none"
  /\ \E T \in ParseTypes, raw \in RawStrings : \E d \in Defaults(T) :
       /\ psT' = T
       /\ psRaw' = raw
       /\ psDft' = d
       /\ psOut' = ParseStringWithDefault(T, raw, d)
  /\ psOp' = "ParseStringWithDefault"
  /\ UNCHANGED notPs

CallParseStringOrDefault ==
  /\ psOp = "none"
  /\ \E T \in ParseTypes, raw \in RawStrings : \E d \in Defaults(T) :
       /\ psT' = T
       /\ psRaw' = raw
       /\ psDft' = d
       /\ psOut' = ParseStringOrDefault(T, raw, d)
  /\ psOp' = "ParseStringOrDefault"
  /\ UNCHANGED notPs

\* the caller has the result
PsReturn ==
  /\ psOp # "none"
  /\ psOp' = "none"
  /\ psT' = "string"
  /\ psRaw' = <<>>
  /\ psDft' = <<>>
  /\ psOut' = [value |-> <<>>, err |-> "none"]
  /\ UNCHANGED notPs

NextParser ==
  \/ CallParseString
  \/ CallParseStringOrZero
  \/ CallParseStringWithDefault
  \/ CallParseStringOrDefault
  \/ PsReturn

SpecParser == InitParser /\ [][NextParser]_vars

\* ------------------------------------------------------------- properties
Done(o) == pc = "done" /\ op = o

\* the elements of e's wrap chain, each as the value it is
ChainValues(e) == {SubSeq(e, k, Len(e)) : k \in 1..Len(e)}

\* the matching predicate as the specification states it: a sentinel rule
\* matches when it is an error value that occurs in the chain, a typed rule
\* when it is a value of an error type that some chain element has; a rule
\* invalid for its kind matches nothing
Matches(e, m) ==
  IF m.IsSentinel
  THEN IsErrorValue(m.ErrorType) /\ m.ErrorType \in ChainValues(e)
  ELSE TypeOf(m.ErrorType) \in ErrorTypes
       /\ \E v \in ChainValues(e) : TypeOf(v) = TypeOf(m.ErrorType)

Matching(e, M) == {i \in 1..Len(M) : Matches(e, M[i])}

FirstMatch(e, M) == CHOOSE i \in Matching(e, M) : \A j \in Matching(e, M) : i <= j

Malformed(m) ==
  IF m.IsSentinel THEN ~IsErrorValue(m.ErrorType)
  ELSE TypeOf(m.ErrorType) \notin ErrorTypes

\* the result of the handler of matcher i on e, as the specification states
\* it: a sentinel handler gets e, a typed handler the outermost chain element
\* of its type
Outermost(e, T) ==
  LET ks == {k \in 1..Len(e) : e[k].typ = T}
      k == CHOOSE a \in ks : \A b \in ks : a <= b
  IN SubSeq(e, k, Len(e))

\* C1: for a non-nil error and any matcher list, Handle tests the matchers in
\* list order and returns (true, r), r the result of the handler of the
\* lowest-index matcher that matches; only that handler is invoked.
C1_FirstMatchWins ==
  (Done("Handle") /\ err # Nil /\ Matching(err, matchers) # {}) =>
    LET k == FirstMatch(err, matchers) IN
      /\ out.kind = "return"
      /\ out.ok
      /\ out.tested = [i \in 1..k |-> i]
      /\ out.sel = k
      /\ out.result = CallHandler(matchers[k].Handler, err).result
      /\ \A n \in 1..Len(out.invoked) :
           out.invoked[n].fn = "Handler" => out.invoked[n].h = k

\* C2: Handle(nil, M) returns (true, nil) for every matcher list M, the empty
\* list and lists with malformed matchers included; no matcher is tested and
\* no handler is invoked.
C2_NilIsHandled ==
  (Done("Handle") /\ err = Nil) =>
    /\ out.kind = "return"
    /\ out.ok
    /\ out.result = Nil
    /\ out.tested = <<>>
    /\ out.invoked = <<>>

C2_Witness ==
  /\ Done("Handle")
  /\ err = Nil
  /\ \E i \in 1..Len(matchers) : Malformed(matchers[i]) /\ ~matchers[i].IsSentinel
  /\ out.kind = "return"

\* C3: a non-nil error e that matches none of the matchers (the empty list
\* included) makes Handle return (false, e), e being the original error, and
\* no handler has been invoked.
C3_NoMatchReturnsOriginal ==
  (Done("Handle") /\ err # Nil /\ Matching(err, matchers) = {}) =>
    /\ out.kind = "return"
    /\ ~out.ok
    /\ out.result = err
    /\ out.invoked = <<>>

C5_SentinelChainAware ==
  Done("Handle") =>
    \A n \in 1..Len(out.tested) :
      LET i == out.tested[n] IN
        (matchers[i].IsSentinel /\ IsErrorValue(matchers[i].ErrorType)) =>
          (out.sel = i <=> matchers[i].ErrorType \in ChainValues(err))

\* a sentinel wrapped twice is matched, and a chain holding only the other
\* value with the same text is passed over
C5_Witness ==
  /\ Done("Handle")
  /\ Len(matchers) = 2
  /\ matchers[1] = OnSentinelError(ErrSentinel1, 1)
  /\ matchers[2] = OnSentinelError(ErrSentinel2, 2)
  /\ Len(err) = 3
  /\ err[3] = ErrSentinel2[1]
  /\ Msg(err[3]) = Msg(ErrSentinel1[1])
  /\ out.tested = <<1, 2>>
  /\ out.sel = 2

\* C6: a typed matcher built by OnType for a concrete type E matches e exactly
\* when some element of e's chain has type E, at any depth; a chain of
\* unrelated types does not match, and T does not match *T nor *T T.
C6_TypedChainAwareExact ==
  Done("Handle") =>
    \A n \in 1..Len(out.tested) :
      LET i == out.tested[n] IN
        (~matchers[i].IsSentinel /\ matchers[i].Handler.kind = "adapted"
           /\ matchers[i].Handler.T \in ErrorTypes) =>
          (out.sel = i <=> \E k \in 1..Len(err) : err[k].typ = matchers[i].Handler.T)

\* the matcher for *CustomError passes over a chain that holds a CustomError
\* value, and the matcher for CustomError finds it under two wrappers
C6_Witness ==
  /\ Done("Handle")
  /\ matchers = <<OnCustomError("PtrCustomError", 2), OnCustomError("CustomError", 1)>>
  /\ Len(err) = 3
  /\ err[1].typ = "wrapError"
  /\ err[2].typ = "wrapError"
  /\ err[3].typ = "CustomError"
  /\ out.tested = <<1, 2>>
  /\ out.sel = 2

\* C7: when a typed matcher for E is the one Handle selects, the user's
\* handler is called with the chain element of type E itself (the outermost
\* one of that type), not with the outer wrapping error, and Handle returns
\* (true, handler(thatElement)).
C7_TypedHandlerGetsElement ==
  (Done("Handle") /\ out.sel > 0 /\ matchers[out.sel].Handler.kind = "adapted"
     /\ matchers[out.sel].Handler.T \in ErrorTypes) =>
    LET H == matchers[out.sel].Handler
        elem == Outermost(err, H.T)
    IN /\ out.kind = "return"
       /\ out.ok
       /\ out.invoked = <<[fn |-> "Handler", h |-> out.sel, arg |-> err],
                          UserCall(H.h, elem)>>
       /\ out.result = UserHandler(H.h, elem)

\* the element is below a wrapper and above a second element of its type
C7_Witness ==
  /\ Done("Handle")
  /\ out.sel > 0
  /\ matchers[out.sel] = OnCustomError("PtrCustomError", 2)
  /\ Len(err) = 3
  /\ err[1].typ = "wrapError"
  /\ err[2] = Elem("PtrCustomError", 2)
  /\ err[3] = Elem("PtrCustomError", 1)
  /\ out.result = UserHandler(2, SubSeq(err, 2, 3))
  /\ out.result # UserHandler(2, err)

\* C8: MustHandle panics when given a non-nil error matched by none of the
\* matchers and returns normally otherwise: nil for a nil error, and exactly
\* the result Handle returns when a matcher matches.
C8_MustHandleAbortsIffUnmatched ==
  Done("MustHandle") =>
    IF err # Nil /\ Matching(err, matchers) = {}
    THEN out.kind = "panic"
    ELSE /\ out.kind = "return"
         /\ err = Nil => out.result = Nil
         /\ err # Nil => out.result = HandleError(err, matchers).result

\* C9: when a non-nil error e matches none of the matchers, HandleOr returns
\* nil if the default handler is nil and d(e) otherwise, e being the original
\* error.
C9_HandleOrDefault ==
  (Done("HandleOr") /\ err # Nil /\ Matching(err, matchers) = {}) =>
    /\ out.kind = "return"
    /\ dft = 0 => out.result = Nil
    /\ dft # 0 => out.result = UserHandler(dft, err)

\* C10: a matcher with a rule invalid for its kind (a sentinel rule that is
\* not an error value, a typed rule that is nil or of a non-error type) never
\* matches and fails safe: Handle on a non-nil error skips it and goes on to
\* the next matcher without aborting.
C10_MalformedIsSkipped ==
  (Done("Handle") /\ err # Nil) =>
    \A n \in 1..Len(out.tested) :
      Malformed(matchers[out.tested[n]]) =>
        /\ out.sel # out.tested[n]
        /\ ~(out.kind = "panic" /\ n = Len(out.tested))

\* C11: if the handler the dispatch selects panics, the panic reaches the
\* caller of Handle, MustHandle or HandleOr unchanged: it is not recovered, no
\* later matcher is tried, the default handler is not invoked and no value is
\* returned.
C11_HandlerPanicPropagates ==
  (pc = "done" /\ out.sel > 0 /\ UserPanics(matchers[out.sel].Handler.h)) =>
    /\ out.kind = "panic"
    /\ out.panic = HandlerPanic
    /\ out.result = Nil
    /\ out.tested[Len(out.tested)] = out.sel
    /\ \A n \in 1..Len(out.invoked) : out.invoked[n].fn # "dft"

\* the panicking handler is first, a second matcher would match too, and a
\* default handler is there
C11_Witness ==
  /\ Done("HandleOr")
  /\ dft # 0
  /\ Len(matchers) = 2
  /\ out.sel = 1
  /\ UserPanics(matchers[1].Handler.h)
  /\ Matches(err, matchers[2])
  /\ out.kind = "panic"

\* C12: Handle, MustHandle, HandleOr, OnSentinel and OnType behave as the
\* deprecated HandleError, HandleErrorOrDie, HandleErrorOrDefault,
\* OnSentinelError and OnCustomError: on every input each pair gives the same
\* matched flag, returned error, handler invocations or panic, and the same
\* matcher.
C12_NewNamesAgree ==
  pc = "done" =>
    /\ op = "Handle" => out = HandleError(err, matchers)
    /\ op = "MustHandle" => out = HandleErrorOrDie(err, matchers)
    /\ op = "HandleOr" => out = HandleErrorOrDefault(err, dft, matchers)
    /\ \A i \in 1..Len(matchers) :
         LET m == matchers[i] IN
           /\ m.Handler.kind = "adapted" =>
                OnType(m.Handler.T, m.Handler.h) = OnCustomError(m.Handler.T, m.Handler.h)
           /\ m.IsSentinel =>
                OnSentinel(m.ErrorType, m.Handler.h) = OnSentinelError(m.ErrorType, m.Handler.h)

\* a dispatch through the current names that selects a typed matcher after a
\* sentinel matcher has been passed over
C12_Witness ==
  /\ Done("Handle")
  /\ matchers = <<OnSentinel(ErrSentinel1, 2), OnType("PtrCustomError", 2)>>
  /\ out.tested = <<1, 2>>
  /\ out.sel = 2
  /\ out.kind = "return"

\* C14: for a non-nil error that no supplied matcher matches, Handle returns
\* a non-nil error, the error itself, and MustHandle does not return; of the
\* three variants only HandleOr can return no error in that situation.
C14_OnlyHandleOrSuppresses ==
  (pc = "done" /\ err # Nil /\ Matching(err, matchers) = {}) =>
    /\ op = "Handle" => (out.kind = "return" /\ out.result = err /\ out.result # Nil)
    /\ op = "MustHandle" => out.kind = "panic"

\* C13: a dispatch only reads its inputs: no step writes to a matcher or to
\* the error, so under every interleaving of dispatches that share one
\* matcher list each dispatch returns the (matched, result) it would return
\* running alone.
C13_SharedListOnlyRead ==
  /\ shM = shM0
  /\ \A g \in Goroutines :
       shPc[g] = "done" => shOut[g] = Observed(Handle(shErr[g], shM0))

\* both goroutines are inside the loop over a list in which two matchers
\* match the same error, one of them behind the other's position
C13_Witness ==
  /\ Len(shM0) = 2
  /\ shPc[1] = "done"
  /\ shOut[1].sel = 1
  /\ shPc[2] = "loop"
  /\ shI[2] = 2
  /\ shErr[2] # shErr[1]

\* C15: Handle keeps no hidden state: two dispatches of the same error
\* against the same matcher list, with any other dispatches in between,
\* select the same matcher and return the same (matched, result).
C15_NoHiddenState ==
  \A g \in Goroutines :
    shPc[g] = "done" => shOut[g] = shSeen[shErr[g]]

\* an error is dispatched for the second time after a dispatch of another
\* error has completed in between
C15_Witness ==
  /\ shPc[1] = "done"
  /\ shPc[2] = "done"
  /\ shErr[1] = shErr[2]
  /\ shErr[1] # Nil
  /\ shOut[1].sel > 0
  /\ \E e \in SharedErrors : e # shErr[1] /\ e # Nil /\ shSeen[e].kind # "none"

\* ----------------------------------------------------- slice and map claims
\* the item the model of the claims expects at 0-based position p of items
ItemAt(items, p) == items[(p % Len(items)) + 1]

\* C16: over n >= 1 items, the k-th call of the function Cycle returned
\* gives items[(k-1) mod n]: the items in order, wrapping to the first
C16_CycleInOrder ==
  Len(slItems) >= 1 =>
    \A k \in 1..Len(cy.hist) : cy.hist[k] = ItemAt(slItems, k - 1)

C16_Witness ==
  /\ Len(slItems) = MaxItems
  /\ Len(cy.hist) > Len(slItems) + 1

\* C17: over n >= 2 items, the calls of the function RandomCycle returned
\* fall into consecutive cycles of exactly n calls; the c-th cycle starts at
\* the index of the c-th draw and walks the items in order from there,
\* wrapping, so each item is returned once a cycle; an index is drawn at
\* construction and then only when a cycle has been completed
C17_RandomCycleWalksCycles ==
  Len(slItems) >= 2 =>
    \A i \in Instances :
      LET n == Len(slItems)
          h == rc[i].hist
      IN  /\ Len(rc[i].draws) = 1 + (Len(h) \div n)
          /\ \A k \in 1..Len(h) :
               h[k] = ItemAt(slItems, rc[i].draws[((k - 1) \div n) + 1] + ((k - 1) % n))
          /\ \A c \in 0..((Len(h) \div n) - 1) :
               {h[c * n + j] : j \in 1..n} = {slItems[j] : j \in 1..n}

C17_Witness ==
  /\ Len(slItems) = MaxItems
  /\ Len(rc[1].hist) = 2 * Len(slItems)
  /\ rc[1].draws[1] = 1
  /\ rc[1].draws[2] = 2

\* C18: with no items the functions of Cycle and of RandomCycle return the
\* zero value on every call; with exactly one item the function of
\* RandomCycle returns that item on every call
C18_EmptyAndSingle ==
  /\ Len(slItems) = 0 =>
       /\ \A k \in 1..Len(cy.hist) : cy.hist[k] = ZeroItem
       /\ \A i \in Instances : \A k \in 1..Len(rc[i].hist) : rc[i].hist[k] = ZeroItem
  /\ Len(slItems) = 1 =>
       \A i \in Instances : \A k \in 1..Len(rc[i].hist) : rc[i].hist[k] = slItems[1]

C18_Witness ==
  /\ Len(slItems) = 1
  /\ Len(rc[1].hist) >= 2
  /\ Len(rc[2].hist) >= 2

\* C19: two functions of RandomCycle over the same items, given generators
\* of the same seed, return the same item call for call, over any number of
\* cycles
C19_SameSeedSameItems ==
  slRand = "seeded" =>
    \A k \in 1..Len(rc[1].hist) :
      k <= Len(rc[2].hist) => rc[1].hist[k] = rc[2].hist[k]

C19_Witness ==
  /\ slRand = "seeded"
  /\ Len(slItems) = MaxItems
  /\ Len(rc[1].hist) = 2 * Len(slItems)
  /\ Len(rc[2].hist) = 2 * Len(slItems)
  /\ rc[1].draws[1] # rc[1].draws[2]

\* C20: after UpdateMap(&old, new) the keys of old are its prior keys and
\* those of new; old[k] is new[k] for a key of new, also when that is the
\* zero value, and the prior value otherwise; a nil old is initialised
\* first and so ends equal to new
C20_UpdateMapMerges ==
  mpOp = "UpdateMap" =>
    LET prior == Lookup(mpPrev.heap, mpPrev.old)
        new == Lookup(mpPrev.heap, mpPrev.new)
        old == Lookup(mpHeap, mpOld)
    IN  /\ DOMAIN old = DOMAIN prior \cup DOMAIN new
        /\ \A k \in DOMAIN old :
             old[k] = IF k \in DOMAIN new THEN new[k] ELSE prior[k]
        /\ mpPrev.old = NilRef => (mpOld # NilRef /\ old = new)

C20_Witness ==
  /\ mpOp = "UpdateMap"
  /\ mpPrev.old # NilRef
  /\ \E k \in Keys :
       /\ k \in DOMAIN Lookup(mpPrev.heap, mpPrev.old)
       /\ k \in DOMAIN Lookup(mpPrev.heap, mpPrev.new)
       /\ Lookup(mpPrev.heap, mpPrev.old)[k] # 0
       /\ Lookup(mpPrev.heap, mpPrev.new)[k] = 0
       /\ Lookup(mpHeap, mpOld)[k] = 0
  /\ \E k \in Keys :
       /\ k \in DOMAIN Lookup(mpPrev.heap, mpPrev.old)
       /\ k \notin DOMAIN Lookup(mpPrev.heap, mpPrev.new)
  /\ \E k \in Keys :
       /\ k \notin DOMAIN Lookup(mpPrev.heap, mpPrev.old)
       /\ k \in DOMAIN Lookup(mpPrev.heap, mpPrev.new)

\* C21: InitMap(&m) makes m a non-nil empty map when m is nil and changes
\* nothing when m is non-nil: m refers to the same map with the same
\* entries, also when it is empty, so a further InitMap changes nothing
C21_InitMapOnlyWhenNil ==
  mpOp = "InitMap" =>
    /\ mpPrev.old = NilRef => (mpOld # NilRef /\ Lookup(mpHeap, mpOld) = EmptyMap)
    /\ mpPrev.old # NilRef => (mpOld = mpPrev.old /\ mpHeap = mpPrev.heap)
    /\ mpNew = mpPrev.new
    /\ Lookup(mpHeap, mpNew) = Lookup(mpPrev.heap, mpPrev.new)

C21_Witness ==
  /\ mpOp = "InitMap"
  /\ mpAlias = NilRef
  /\ mpPrev.old = MadeId
  /\ mpOld = MadeId
  /\ mpHeap[MadeId] = EmptyMap

\* C30: UpdateMap(&old, new) leaves new unchanged, and a non-nil old is
\* modified in place: old refers to the same map as before, and another
\* variable holding that map reads the merged entries
C30_UpdateMapInPlace ==
  mpOp = "UpdateMap" =>
    /\ mpNew = mpPrev.new
    /\ Lookup(mpHeap, mpNew) = Lookup(mpPrev.heap, mpPrev.new)
    /\ mpPrev.old # NilRef =>
         /\ mpOld = mpPrev.old
         /\ (mpAlias = mpPrev.old =>
               LET seen == Lookup(mpHeap, mpAlias)
                   prior == Lookup(mpPrev.heap, mpPrev.old)
                   new == Lookup(mpPrev.heap, mpPrev.new)
               IN  /\ DOMAIN seen = DOMAIN prior \cup DOMAIN new
                   /\ \A k \in DOMAIN new : seen[k] = new[k]
                   /\ \A k \in DOMAIN prior \ DOMAIN new : seen[k] = prior[k])

C30_Witness ==
  /\ mpOp = "UpdateMap"
  /\ mpAlias = OldId
  /\ mpPrev.old = OldId
  /\ mpPrev.new = NewId
  /\ Lookup(mpHeap, mpAlias) # Lookup(mpPrev.heap, mpPrev.old)
  /\ Lookup(mpHeap, mpNew) # Lookup(mpHeap, mpOld)

\* ------------------------------------------------------------ NumLen claims
Abs(x) == IF x < 0 THEN -x ELSE x

\* the number of decimal digits of the natural number a, none for 0
RECURSIVE Digits(_)
Digits(a) == IF a = 0 THEN 0 ELSE 1 + Digits(a \div 10)

\* C22 (state part): NumLen(n) returns 1 for 0 and otherwise the number of
\* decimal digits of |n|, the minimum of a signed type included; no
\* operation overflows, and each iteration removes one digit of number
C22_NumLenInv ==
  /\ ~nlOvf
  /\ nlPc = "loop" => nlCount + Digits(Abs(nlNumber)) = Digits(Abs(nlN))
  /\ nlPc = "done" =>
       nlRet = IF nlN = 0 THEN 1 ELSE Digits(Abs(nlN))

\* C22: for every value n of a bounded integer type NumLen(n) is 1 for 0
\* and otherwise the number of decimal digits of |n|, the same for n and
\* -n, also for the minimum of a signed type; nothing overflows and the
\* loop terminates
C22_NumLenDigits == [](C22_NumLenInv) /\ ((nlPc = "loop") ~> (nlPc = "done"))

C22_Witness ==
  /\ nlPc = "done"
  /\ nlT = "int8"
  /\ nlN = MinOf("int8")
  /\ nlRet = 3

\* ------------------------------------------------------------ parser claims
\* C23: when ParseString[T](s) succeeds with v, ParseStringOrZero,
\* ParseStringWithDefault and ParseStringOrDefault return v, the second
\* with a nil error; when it fails with err they return the zero value of
\* T, (dft, err) and dft
C23_WrappersFollowParseString ==
  LET p == ParseString(psT, psRaw) IN
    /\ psOp = "ParseStringOrZero" =>
         psOut.value = IF p.err = "nil" THEN p.value ELSE ZeroOf(psT)
    /\ psOp = "ParseStringWithDefault" =>
         /\ psOut.value = IF p.err = "nil" THEN p.value ELSE psDft
         /\ psOut.err = p.err
    /\ psOp = "ParseStringOrDefault" =>
         psOut.value = IF p.err = "nil" THEN p.value ELSE psDft

C23_Witness ==
  /\ psOp = "ParseStringWithDefault"
  /\ psT = "int8"
  /\ psRaw = <<"9", "9", "9">>
  /\ psDft = 1
  /\ psOut = [value |-> 1, err |-> "ErrRange"]

\* ------------------------------------------------- further dispatch claims
\* the panic statement of HandleErrorOrDie, told by its format string
UnhandledPanic(o) == o.kind = "panic" /\ o.panic.msg = "Unhandled error of type %T: %v"

C25_SentinelHandlerGetsOriginal ==
  (Done("Handle") /\ out.sel > 0 /\ matchers[out.sel].IsSentinel) =>
    LET H == matchers[out.sel].Handler IN
      /\ out.invoked = <<[fn |-> "Handler", h |-> out.sel, arg |-> err],
                         UserCall(H.h, err)>>
      /\ ~UserPanics(H.h) =>
           /\ out.kind = "return"
           /\ out.ok
           /\ out.result = UserHandler(H.h, err)

C25_Witness ==
  /\ Done("Handle")
  /\ out.sel > 0
  /\ matchers[out.sel] = OnSentinelError(ErrSentinel1, 2)
  /\ Len(err) = 2
  /\ err # ErrSentinel1
  /\ out.result = UserHandler(2, err)
  /\ out.result # UserHandler(2, ErrSentinel1)

\* the default handler was invoked during the dispatch
DefaultInvoked(o) == \E n \in 1..Len(o.invoked) : o.invoked[n].fn = "dft"

\* C26: HandleOr invokes the default handler only when the error is non-nil
\* and no matcher matches; for a nil error it returns nil, and when a matcher
\* matches it returns the result of that matcher's handler, also when that
\* is nil, in both cases without invoking the default handler
C26_DefaultOnlyWhenUnmatched ==
  Done("HandleOr") =>
    /\ DefaultInvoked(out) => (err # Nil /\ Matching(err, matchers) = {})
    /\ err = Nil =>
         /\ out.kind = "return"
         /\ out.result = Nil
         /\ out.invoked = <<>>
    /\ (err # Nil /\ Matching(err, matchers) # {}
          /\ ~UserPanics(matchers[FirstMatch(err, matchers)].Handler.h)) =>
         /\ out.kind = "return"
         /\ out.result = CallHandler(matchers[FirstMatch(err, matchers)].Handler, err).result
         /\ ~DefaultInvoked(out)

\* typed matchers as the builder makes them, for the type arguments of the
\* model: struct, pointer and the interface type error
BuiltTyped == {m \in BuiltMatchers : ~m.IsSentinel}

\* C27: every matcher OnType/OnCustomError returns, for any type argument
\* the constraint allows, the interface type error included, can be tested
\* by Handle against any non-nil error without Handle itself aborting: it
\* matches or it is skipped
C27_BuiltTypedNeverAborts ==
  (Done("Handle") /\ err # Nil) =>
    \A n \in 1..Len(out.tested) :
      matchers[out.tested[n]] \in BuiltTyped =>
        \/ out.sel = out.tested[n]
        \/ n < Len(out.tested)
        \/ (out.kind = "return" /\ ~out.ok)

\* the calls of a user's handler in an invocation log
UserCalls(o) == {n \in 1..Len(o.invoked) : o.invoked[n].fn = "user"}

\* e's chain has an element of type T; every non-nil error is of the
\* interface type error
HasType(e, T) == IF T = "error" THEN e # Nil ELSE \E k \in 1..Len(e) : e[k].typ = T

\* C28: for a matcher built by OnType/OnCustomError the match test of the
\* dispatch and the extraction in the adapted handler agree: whenever the
\* matcher is selected the extraction succeeds and the user's handler is
\* invoked exactly once; the adapted handler returns nil without calling
\* the user's handler only when it is called directly on an error whose
\* chain has no element of type T
C28_TestAndExtractionAgree ==
  /\ (pc = "done" /\ op # "Handler" /\ out.sel > 0
        /\ matchers[out.sel].Handler.kind = "adapted") =>
       /\ Cardinality(UserCalls(out)) = 1
       /\ HasType(err, matchers[out.sel].Handler.T)
       /\ \A n \in UserCalls(out) :
            /\ out.invoked[n].h = matchers[out.sel].Handler.h
            /\ out.invoked[n].arg # Nil
            /\ out.invoked[n].arg[1].typ = matchers[out.sel].Handler.T
  /\ (Done("Handler") /\ UserCalls(out) = {}) =>
       /\ ~HasType(err, matchers[1].Handler.T)
       /\ out.kind = "return"
       /\ out.result = Nil

C28_Witness ==
  /\ Done("MustHandle")
  /\ out.sel = 2
  /\ matchers[2] = OnCustomError("CustomError", 1)
  /\ Len(err) = 3
  /\ err[1].typ = "wrapError"
  /\ err[3].typ = "CustomError"
  /\ out.invoked = <<[fn |-> "Handler", h |-> 2, arg |-> err],
                     UserCall(1, SubSeq(err, 3, 3))>>

\* ------------------------------------------------------ RandomCycle for ever
\* C29 (state part): over n >= 2 items every value returned is one of the
\* items, and 2n-1 consecutive calls return every item
C29_WindowHasAll ==
  Len(slItems) >= 2 =>
    \A i \in Instances :
      LET n == Len(slItems)
          h == rc[i].hist
          items == {slItems[j] : j \in 1..n}
      IN  /\ \A k \in 1..Len(h) : h[k] \in items
          /\ Len(h) = 2 * n - 1 => {h[k] : k \in 1..Len(h)} = items

\* the last call of function i returned the k-th item
Returns(i, k) ==
  /\ k <= Len(slItems)
  /\ Len(rc[i].hist) > 0
  /\ rc[i].hist[Len(rc[i].hist)] = slItems[k]

\* C29: for n >= 2 items and any sequence of random start indices, every
\* value a RandomCycle function returns is one of the items, every item is
\* returned in any 2n-1 consecutive calls, and so every item is returned
\* infinitely often
C29_EveryItemRecurs ==
  /\ [](C29_WindowHasAll)
  /\ \A i \in Forever : \A k \in 1..MaxItems :
       []<>((Len(slItems) >= 2 /\ k <= Len(slItems)) => Returns(i, k))

C29_Witness ==
  /\ Len(slItems) = 3
  /\ rc[1].hist = <<3, 1, 2, 3, 2>>

====
